---- MODULE Spec2Model ----
(***************************************************************************)
(* Mu.Orbita remote-sensing engine: the export orchestrator and the task   *)
(* status tracker of app/services/gee_automation.py, with its two entry    *)
(* points (the command line main() and the router POST /api/v1/gee/execute) *)
(* and the remote batch system they talk to.                               *)
(*                                                                         *)
(* Text is modelled as a sequence of one-character strings so that         *)
(* Python's substring test `a in b` is computed, not assumed.              *)
(***************************************************************************)
EXTENDS Integers, Sequences, FiniteSets, TLC

VARIABLES remote, response, executes, remoteSteps, jobs

vars == <<remote, response, executes, remoteSteps, jobs>>

----------------------------------------------------------------------------
(* Bounds of the model *)

\* number of execute calls explored
MaxExecutes == 2
\* number of state changes the remote batch system makes
MaxRemoteSteps == 2
\* a remote platform fault hits one of the first MaxFaultAt+1 submissions
MaxFaultAt == 1
\* length of the task lists the status specification starts from
MaxListed == 2
\* largest ROI area, in hectares, of the KPI computations
MaxAreaHa == 4

----------------------------------------------------------------------------
(* Text *)

\* the characters of the pieces of text the engine formats descriptions from
Chars(s) ==
    CASE s = "J1" -> <<"J", "1">>
      [] s = "J12" -> <<"J", "1", "2">>
      [] s = "PNG7" -> <<"P", "N", "G", "7">>
      [] s = "PNG" -> <<"P", "N", "G">>
      [] s = "_PNG_" -> <<"_", "P", "N", "G", "_">>
      [] s = "_PNG_VRA" -> <<"_", "P", "N", "G", "_", "V", "R", "A">>
      [] s = "_PNG_LST" -> <<"_", "P", "N", "G", "_", "L", "S", "T">>
      [] s = "_TIFF_" -> <<"_", "T", "I", "F", "F", "_">>
      [] s = "_VRA_RASTER" -> <<"_", "V", "R", "A", "_", "R", "A", "S", "T", "E", "R">>
      [] s = "_VRA_VECTOR" -> <<"_", "V", "R", "A", "_", "V", "E", "C", "T", "O", "R">>
      [] s = "_VRA_STATS" -> <<"_", "V", "R", "A", "_", "S", "T", "A", "T", "S">>
      [] s = "_KPIs" -> <<"_", "K", "P", "I", "s">>
      [] s = "_TimeSeries" -> <<"_", "T", "i", "m", "e", "S", "e", "r", "i", "e", "s">>
      [] s = "NDVI" -> <<"N", "D", "V", "I">>
      [] s = "NDWI" -> <<"N", "D", "W", "I">>
      [] s = "EVI" -> <<"E", "V", "I">>
      [] s = "NDCI" -> <<"N", "D", "C", "I">>
      [] s = "SAVI" -> <<"S", "A", "V", "I">>
      [] s = "OSAVI" -> <<"O", "S", "A", "V", "I">>

\* a formatted text is kept as the sequence of its pieces (the job id and
\* the literal and index parts of the f-string); Flatten gives its characters
RECURSIVE Flatten(_)
Flatten(pieces) ==
    IF pieces = <<>> THEN <<>>
    ELSE Chars(Head(pieces)) \o Flatten(Tail(pieces))

\* the substring test on characters
IsInfix(needle, hay) ==
    \E i \in 0..(Len(hay) - Len(needle)) :
        \A k \in 1..Len(needle) : hay[i + k] = needle[k]

\* Python: needle in text
Infix(text, needle) == IsInfix(Chars(needle), Flatten(text))

\* job ids used by the engine runs; J1 is a proper substring of J12
JobIds == {"J1", "J12"}
\* with a job id that happens to contain the text PNG
StatusJobIds == JobIds \cup {"PNG7"}

----------------------------------------------------------------------------
(* Remote batch system: task states (ee.batch.Task.State) *)

TaskStates ==
    {"UNSUBMITTED", "READY", "RUNNING", "COMPLETED", "FAILED",
     "CANCEL_REQUESTED", "CANCELLED"}

\* what the engine sees of one remote task: t.config['description'], t.state, t.id
\* (the id is the task's position in the platform's list); job is the job_id
\* argument of the execute call that started it, folder the Drive folder
\* the export was created with
Task(description, state, job, folder) ==
    [description |-> description, state |-> state, job |-> job, folder |-> folder]

\* ee.batch.Task.list(): position i of the list is the task with id i
TaskList(tasks) == [i \in 1..Len(tasks) |-> tasks[i]]

\* task.start() as the batch system treats it: an unsubmitted task is queued,
\* starting an already submitted task changes nothing
RemoteStart(t) ==
    IF t.state = "UNSUBMITTED" THEN [t EXCEPT !.state = "READY"] ELSE t

----------------------------------------------------------------------------
(* The export plan of execute, and the texts it formats *)

indices_to_export_png == <<"NDVI", "NDWI", "EVI", "NDCI", "SAVI">>
indices_to_export_tiff == <<"NDVI", "NDWI", "EVI", "NDCI", "SAVI", "OSAVI">>

\* idx_name.lower()
Lower(idx_name) ==
    CASE idx_name = "NDVI" -> "ndvi"
      [] idx_name = "NDWI" -> "ndwi"
      [] idx_name = "EVI" -> "evi"
      [] idx_name = "NDCI" -> "ndci"
      [] idx_name = "SAVI" -> "savi"
      [] idx_name = "OSAVI" -> "osavi"

\* --drive-folder, by default
drive_folder == "MuOrbita_Outputs"

\* base_folder = f"{args.drive_folder}/{job_id}" and the four folders under it
Folders(job_id) ==
    [web |-> <<drive_folder, job_id, "WEB">>,
     tiff |-> <<drive_folder, job_id, "TIFF">>,
     data |-> <<drive_folder, job_id, "DATA">>,
     vra |-> <<drive_folder, job_id, "VRA">>]

\* one export: the description and Drive folder given to the platform, the
\* manifest entry appended after task.start(), and whether the start is
\* inside try/except
Export(description, target, name, type, folder, guarded) ==
    [description |-> description, target |-> target, name |-> name, type |-> type,
     folder |-> folder, guarded |-> guarded]

PngExports(job_id) ==
    [k \in 1..Len(indices_to_export_png) |->
        LET idx_name == indices_to_export_png[k]
        IN  Export(<<job_id, "_PNG_", idx_name>>, Folders(job_id).web,
                   "PNG_" \o idx_name \o ".png", "png_" \o Lower(idx_name),
                   "WEB", FALSE)]

PngVraExport(job_id) ==
    <<Export(<<job_id, "_PNG_VRA">>, Folders(job_id).web, "PNG_VRA.png", "png_vra", "WEB", FALSE)>>

PngLstExport(job_id) ==
    <<Export(<<job_id, "_PNG_LST">>, Folders(job_id).web, "PNG_LST.png", "png_lst", "WEB", FALSE)>>

TiffExports(job_id) ==
    [k \in 1..Len(indices_to_export_tiff) |->
        LET idx_name == indices_to_export_tiff[k]
        IN  Export(<<job_id, "_TIFF_", idx_name>>, Folders(job_id).tiff,
                   "TIFF_" \o idx_name \o ".tif", "tiff_" \o Lower(idx_name),
                   "TIFF", FALSE)]

VraExports(job_id) ==
    <<Export(<<job_id, "_VRA_RASTER">>, Folders(job_id).vra, "VRA_RASTER.tif", "vra_raster", "VRA", FALSE),
      Export(<<job_id, "_VRA_VECTOR">>, Folders(job_id).vra, "VRA_VECTOR.shp", "vra_vector", "VRA", TRUE),
      Export(<<job_id, "_VRA_STATS">>, Folders(job_id).vra, "VRA_STATS.csv", "vra_stats", "VRA", FALSE)>>

DataExports(job_id) ==
    <<Export(<<job_id, "_KPIs">>, Folders(job_id).data, "KPIs.csv", "kpis", "DATA", FALSE),
      Export(<<job_id, "_TimeSeries">>, Folders(job_id).data, "TimeSeries.csv", "timeseries", "DATA", FALSE)>>

\* the exports of one execute call in the order the code starts them:
\* vra is `vra_image is not None`, lst is `lst is not None`
ExportPlan(job_id, export_png, vra, lst) ==
    (IF export_png
     THEN PngExports(job_id)
          \o (IF vra THEN PngVraExport(job_id) ELSE <<>>)
          \o (IF lst THEN PngLstExport(job_id) ELSE <<>>)
     ELSE <<>>)
    \o TiffExports(job_id)
    \o (IF vra THEN VraExports(job_id) ELSE <<>>)
    \o DataExports(job_id)

\* every description the engine formats, and every text it searches for
Descriptions ==
    UNION {{ExportPlan(j, TRUE, TRUE, TRUE)[k].description :
                k \in 1..Len(ExportPlan(j, TRUE, TRUE, TRUE))} : j \in StatusJobIds}

Needles == StatusJobIds \cup {"PNG"}

\* the substring test, tabulated once over those texts
InfixTable == [d \in Descriptions, n \in Needles |-> Infix(d, n)]

\* Python: needle in text
Contains(text, needle) == InfixTable[text, needle]

----------------------------------------------------------------------------
(* check_status *)

\* job_tasks = [t for t in tasks if args.job_id in t.config.get('description', '')]
\* as the sequence of task ids, in the order of the list
RECURSIVE JobTasksFrom(_, _, _)
JobTasksFrom(job_id, tasks, i) ==
    IF i > Len(tasks) THEN <<>>
    ELSE (IF Contains(tasks[i].description, job_id) THEN <<i>> ELSE <<>>)
         \o JobTasksFrom(job_id, tasks, i + 1)

JobTasks(job_id, tasks) == JobTasksFrom(job_id, tasks, 1)

ZeroCounts == [completed |-> 0, running |-> 0, failed |-> 0, pending |-> 0]

\* the chain without its final else: a state outside the four named ones is
\* counted nowhere
CountStateNoElse(c, state) ==
    IF state = "COMPLETED" THEN [c EXCEPT !.completed = @ + 1]
    ELSE IF state \in {"RUNNING", "READY"} THEN [c EXCEPT !.running = @ + 1]
    ELSE IF state = "FAILED" THEN [c EXCEPT !.failed = @ + 1]
    ELSE c

\* the chain without its FAILED branch: a failed task is counted as pending
CountStateNoFailed(c, state) ==
    IF state = "COMPLETED" THEN [c EXCEPT !.completed = @ + 1]
    ELSE IF state \in {"RUNNING", "READY"} THEN [c EXCEPT !.running = @ + 1]
    ELSE [c EXCEPT !.pending = @ + 1]

\* the if / elif / elif / else chain of the counting loop, for one task state
CountState(c, state) ==
    IF state = "COMPLETED" THEN [c EXCEPT !.completed = @ + 1]
    ELSE IF state \in {"RUNNING", "READY"} THEN [c EXCEPT !.running = @ + 1]
    ELSE IF state = "FAILED" THEN [c EXCEPT !.failed = @ + 1]
    ELSE [c EXCEPT !.pending = @ + 1]

\* the loop `for task in job_tasks`: the status list {name, state, id}
StatusList(ids, tasks) ==
    [k \in 1..Len(ids) |->
        [name |-> tasks[ids[k]].description,
         state |-> tasks[ids[k]].state,
         id |-> ids[k]]]

\* the ids of a status list, in its order
Ids(status) == [k \in 1..Len(status) |-> status[k].id]

\* the loop `for task in job_tasks`: the four counters
RECURSIVE CountLoop(_, _, _)
CountLoop(status, k, c) ==
    IF k > Len(status) THEN c
    ELSE CountLoop(status, k + 1, CountState(c, status[k].state))

\* Python round(num / den): to the nearest integer, ties to the even one
RoundHalfEven(num, den) ==
    LET q == num \div den
        r == num % den
    IN  IF 2 * r < den THEN q
        ELSE IF 2 * r > den THEN q + 1
        ELSE IF q % 2 = 0 THEN q ELSE q + 1

\* the test without total > 0: a job with no task counts as complete
AllCompleteNoTotal(c, total) ==
    c.completed = total /\ c.running = 0 /\ c.pending = 0

\* all_complete = (completed == total and total > 0 and running == 0 and pending == 0)
AllComplete(c, total) ==
    c.completed = total /\ total > 0 /\ c.running = 0 /\ c.pending = 0

\* png_tasks = [t for t in status if 'PNG' in t['name']]
PngTasks(status) == {k \in 1..Len(status) : Contains(status[k].name, "PNG")}

\* all(...) alone, without the `if png_tasks else False`
PngCompleteVacuous(status) ==
    \A k \in PngTasks(status) : status[k].state = "COMPLETED"

\* all(t['state'] == 'COMPLETED' for t in png_tasks) if png_tasks else False
PngComplete(status) ==
    IF PngTasks(status) # {}
    THEN \A k \in PngTasks(status) : status[k].state = "COMPLETED"
    ELSE FALSE

check_status(job_id, tasks) ==
    LET status == StatusList(JobTasks(job_id, tasks), tasks)
        c == CountLoop(status, 1, ZeroCounts)
        total == Len(status)
    IN  [op |-> "check_status",
         job_id |-> job_id,
         tasks |-> Ids(status),
         completed |-> c.completed,
         running |-> c.running,
         failed |-> c.failed,
         pending |-> c.pending,
         total |-> total,
         all_complete |-> AllComplete(c, total),
         png_complete |-> PngComplete(status),
         any_failed |-> c.failed > 0,
         progress_pct |-> IF total > 0
                          THEN RoundHalfEven(c.completed * 100, total)
                          ELSE 0]

----------------------------------------------------------------------------
(* download_results *)

\* the static list of expected files by folder
Files ==
    [WEB |-> <<[name |-> "PNG_NDVI.png", type |-> "png_ndvi"],
               [name |-> "PNG_NDWI.png", type |-> "png_ndwi"],
               [name |-> "PNG_EVI.png", type |-> "png_evi"],
               [name |-> "PNG_NDCI.png", type |-> "png_ndci"],
               [name |-> "PNG_SAVI.png", type |-> "png_savi"],
               [name |-> "PNG_VRA.png", type |-> "png_vra"],
               [name |-> "PNG_LST.png", type |-> "png_lst"]>>,
     TIFF |-> <<[name |-> "TIFF_NDVI.tif", type |-> "tiff_ndvi"],
                [name |-> "TIFF_NDWI.tif", type |-> "tiff_ndwi"],
                [name |-> "TIFF_EVI.tif", type |-> "tiff_evi"],
                [name |-> "TIFF_NDCI.tif", type |-> "tiff_ndci"],
                [name |-> "TIFF_SAVI.tif", type |-> "tiff_savi"],
                [name |-> "TIFF_OSAVI.tif", type |-> "tiff_osavi"]>>,
     DATA |-> <<[name |-> "KPIs.csv", type |-> "kpis"],
                [name |-> "TimeSeries.csv", type |-> "timeseries"]>>,
     VRA |-> <<[name |-> "VRA_RASTER.tif", type |-> "vra_raster"],
               [name |-> "VRA_VECTOR.shp", type |-> "vra_vector"],
               [name |-> "VRA_STATS.csv", type |-> "vra_stats"]>>]

\* the gate taken on the PNG tasks alone
NotReadyPng(status) == ~ status.png_complete

\* `if not status['all_complete']`: the gate of download_results
NotReady(status) == ~ status.all_complete

download_results(job_id, tasks) ==
    LET status == check_status(job_id, tasks)
    IN  IF NotReady(status)
        THEN [op |-> "download_results",
              job_id |-> job_id,
              status |-> "waiting",
              download_ready |-> FALSE,
              png_ready |-> status.png_complete,
              progress |-> status]
        ELSE [op |-> "download_results",
              job_id |-> job_id,
              status |-> "ready",
              download_ready |-> TRUE,
              files |-> Files]

----------------------------------------------------------------------------
(* start_tasks *)

\* the test widened to the tasks the platform has not finished
ToStartUnfinished(job_id, tasks) ==
    {i \in 1..Len(tasks) :
        /\ Contains(tasks[i].description, job_id)
        /\ tasks[i].state \in {"READY", "RUNNING"}}

\* `if task.state == 'READY'`: the tasks start_tasks calls task.start() on
ToStart(job_id, tasks) ==
    {i \in 1..Len(tasks) :
        /\ Contains(tasks[i].description, job_id)
        /\ tasks[i].state = "READY"}

\* started is incremented once per task.start() call; started_ids records
\* which tasks those calls were made on
start_tasks(job_id, tasks) ==
    LET ids == ToStart(job_id, tasks)
    IN  [op |-> "start_tasks",
         job_id |-> job_id,
         started |-> Cardinality(ids),
         started_ids |-> ids]

\* the task list after the task.start() calls of start_tasks
AfterStart(job_id, tasks) ==
    LET ids == ToStart(job_id, tasks)
    IN  [i \in 1..Len(tasks) |->
            IF i \in ids THEN RemoteStart(tasks[i]) ELSE tasks[i]]

----------------------------------------------------------------------------
(* calculate_vra_zones: k-means zonation and its summaries *)

\* the three groups of pixels the clusterer separates
Clusters == {"A", "B", "C"}

\* the ways the clusterer may number them: its raw ids 0, 1, 2 are arbitrary
ClusterIds == {f \in [Clusters -> 0..2] : \A c, d \in Clusters : c # d => f[c] # f[d]}

\* mean NDVI of a cluster as reduceRegion gives it, in 1/10000; a cluster
\* without valid pixels has no mean (None)
RawMeans == {2996, 3004, 4500, 6200}
MeanValues ==
    {[none |-> TRUE, v |-> 0]} \cup {[none |-> FALSE, v |-> m] : m \in RawMeans}

\* what the platform answers to the zonation requests: whether sampling and
\* clustering succeed, the mean NDVI of each cluster, the raw id of each
Zonation(ok, means, ids) == [ok |-> ok, means |-> means, ids |-> ids]

\* round(zone_indices.get('NDVI', 0) or 0, 3), in 1/1000
NdviMean(mean) == IF mean.none \/ mean.v = 0 THEN 0 ELSE RoundHalfEven(mean.v, 10)

\* the cluster the clusterer gave the raw id zone_num
ClusterOf(ids, zone_num) == CHOOSE c \in Clusters : ids[c] = zone_num

\* the loop `for zone_num in range(3)`: one summary per raw id
ZoneStats(z) ==
    [k \in 1..3 |->
        [zone |-> k - 1, ndvi_mean |-> NdviMean(z.means[ClusterOf(z.ids, k - 1)])]]

\* list.sort(key=ndvi_mean) is stable: x goes after the entries whose key is
\* not greater than its own
InsertByNdvi(sorted, x) ==
    LET n == Cardinality({k \in 1..Len(sorted) : sorted[k].ndvi_mean <= x.ndvi_mean})
    IN  SubSeq(sorted, 1, n) \o <<x>> \o SubSeq(sorted, n + 1, Len(sorted))

RECURSIVE SortByNdviFrom(_, _)
SortByNdviFrom(stats, n) ==
    IF n = 0 THEN <<>>
    ELSE InsertByNdvi(SortByNdviFrom(stats, n - 1), stats[n])

\* the summaries left in the order of the raw ids
SortByNdviSkipped(stats) == stats

\* vra_stats.sort(key=lambda x: x['ndvi_mean'])
SortByNdvi(stats) == SortByNdviFrom(stats, Len(stats))

labels == <<"Bajo vigor", "Vigor medio", "Alto vigor">>
recommendations == <<"Dosis alta", "Dosis media", "Dosis baja">>

\* the loop `for i, stat in enumerate(vra_stats)`
Labelled(stats) ==
    [i \in 1..Len(stats) |->
        [zone |-> stats[i].zone, ndvi_mean |-> stats[i].ndvi_mean,
         label |-> labels[i], recommendation |-> recommendations[i]]]

\* the except branch taken on no failure
ZonationFailsNever(z) == FALSE

\* any exception of the sampling, clustering or reduceRegion requests is
\* caught by the try / except of calculate_vra_zones
ZonationFails(z) == ~ z.ok

\* calculate_vra_zones: (None, []) on failure, else the zone image (the raw id
\* of every cluster) and the sorted, labelled summaries
calculate_vra_zones(z) ==
    IF ZonationFails(z)
    THEN [none |-> TRUE, vra_stats |-> <<>>]
    ELSE [none |-> FALSE, zone |-> z.ids,
          vra_stats |-> Labelled(SortByNdvi(ZoneStats(z)))]

\* VIZ_PALETTES['VRA']
VIZ_VRA == [min |-> 0, max |-> 2, palette |-> <<"e74c3c", "f1c40f", "27ae60">>]

\* image.visualize(min, max, palette) on an integer band: the colour of value
Visualize(viz, value) ==
    viz.palette[((value - viz.min) * (Len(viz.palette) - 1)) \div (viz.max - viz.min) + 1]

\* vra_image.visualize(**viz_vra): the colour each cluster gets in PNG_VRA
VraVisualized(zone) == [c \in Clusters |-> Visualize(VIZ_VRA, zone[c])]

----------------------------------------------------------------------------
(* execute: inputs *)

\* args.roi: text that is not JSON, JSON without a geometry, a polygon
RoiInputs == {"not_json", "no_geometry", "polygon"}

\* create_roi: json.loads and ee.Geometry accept only the polygon; every
\* exception is re-raised as ValueError("Invalid GeoJSON: ...")
create_roi(roi) ==
    IF roi = "polygon"
    THEN [raised |-> FALSE, roi |-> roi]
    ELSE [raised |-> TRUE, exc |-> "Invalid GeoJSON"]

\* the arguments of an execute call.  entry: the command line (parse_args)
\* or the router (the SimpleNamespace of execute_gee, which has no
\* export_png attribute and always passes JSON text as roi)
Args(entry, job_id, roi, export_png) ==
    [entry |-> entry, job_id |-> job_id, roi |-> roi, export_png |-> export_png]

\* what the remote platform answers during one execute call: the number of
\* scenes found, whether zonation and the LST layer succeed, whether the
\* start() of the VRA vector export succeeds, and whether the platform
\* fails during the submissions and after how many start() calls
Cond(scenes, zonation, lst, vector, faulty, fault_at) ==
    [scenes |-> scenes, zonation |-> zonation, lst |-> lst, vector |-> vector,
     faulty |-> faulty, fault_at |-> fault_at]

\* the answer to the zonation requests during an execute call: the clusterer
\* happens to give raw id 0 to the cluster of highest NDVI
ZonationOf(cond) ==
    Zonation(cond.zonation,
             [c \in Clusters |->
                 [none |-> FALSE,
                  v |-> CASE c = "A" -> 6200 [] c = "B" -> 3004 [] c = "C" -> 4500]],
             [c \in Clusters |-> CASE c = "A" -> 0 [] c = "B" -> 1 [] c = "C" -> 2])

Nominal == Cond(2, TRUE, TRUE, TRUE, FALSE, 0)
NoScenes == Cond(0, TRUE, TRUE, TRUE, FALSE, 0)

RemoteConditions ==
    {Nominal,
     NoScenes,
     Cond(2, FALSE, TRUE, TRUE, FALSE, 0),
     Cond(2, TRUE, FALSE, TRUE, FALSE, 0),
     Cond(2, TRUE, TRUE, FALSE, FALSE, 0)}
    \cup {Cond(2, TRUE, TRUE, TRUE, TRUE, k) : k \in 0..MaxFaultAt}

\* the execute calls explored: the usual command line call under every
\* remote condition, and every other kind of call under the nominal
\* condition and with no scenes
ExecuteInputs ==
    UNION {
        {[args |-> Args("cli", j, "polygon", "true"), cond |-> c] :
            c \in RemoteConditions}
        \cup {[args |-> Args("cli", j, "polygon", "false"),
               cond |-> Cond(2, FALSE, TRUE, TRUE, FALSE, 0)]}
        \cup {[args |-> a, cond |-> c] :
                a \in {Args("cli", j, "polygon", "false"),
                       Args("cli", j, "not_json", "true"),
                       Args("cli", j, "no_geometry", "true"),
                       Args("http", j, "polygon", "absent"),
                       Args("http", j, "no_geometry", "absent")},
                c \in {Nominal, NoScenes}}
        : j \in JobIds}

----------------------------------------------------------------------------
(* execute: the submissions *)

\* the start() call number k of the plan fails on the platform
StartFails(plan, k, cond) ==
    \/ cond.faulty /\ cond.fault_at = k - 1
    \/ plan[k].type = "vra_vector" /\ ~ cond.vector

\* the submissions in order: each successful task.start() puts a READY task
\* on the platform and appends {name, type, id, folder} to the manifest; a
\* failed start inside try/except is skipped, any other failed start raises
RECURSIVE SubmitFrom(_, _, _, _, _, _)
SubmitFrom(plan, k, cond, job_id, tasks, manifest) ==
    IF k > Len(plan)
    THEN [raised |-> FALSE, tasks |-> tasks, manifest |-> manifest]
    ELSE IF StartFails(plan, k, cond)
    THEN IF plan[k].guarded
         THEN SubmitFrom(plan, k + 1, cond, job_id, tasks, manifest)
         ELSE [raised |-> TRUE, tasks |-> tasks, manifest |-> manifest]
    ELSE SubmitFrom(plan, k + 1, cond, job_id,
             Append(tasks, RemoteStart(Task(plan[k].description, "UNSUBMITTED", job_id, plan[k].target))),
             Append(manifest, [name |-> plan[k].name, type |-> plan[k].type,
                               id |-> Len(tasks) + 1, folder |-> plan[k].folder]))

----------------------------------------------------------------------------
(* execute *)

\* the early return left out
NoImagesNever(count) == FALSE

\* `if count == 0`: the early return of execute_analysis when the collection
\* is empty
NoImages(count) == count = 0

\* execute_analysis: what it returns or raises, and the platform's task list
\* when it ends
execute_analysis(args, cond, tasks) ==
    IF create_roi(args.roi).raised
    THEN [raised |-> TRUE, exc |-> create_roi(args.roi).exc, tasks |-> tasks]
    ELSE IF NoImages(cond.scenes)
    THEN [raised |-> FALSE, tasks |-> tasks,
          result |-> [error |-> "No images found for the specified date range and ROI",
                      job_id |-> args.job_id]]
    ELSE IF args.export_png = "absent"
    THEN [raised |-> TRUE, exc |-> "AttributeError: export_png", tasks |-> tasks]
    ELSE LET zones == calculate_vra_zones(ZonationOf(cond))
             plan == ExportPlan(args.job_id, args.export_png = "true",
                                ~ zones.none, cond.lst)
             sub == SubmitFrom(plan, 1, cond, args.job_id, tasks, <<>>)
         IN  IF sub.raised
             THEN [raised |-> TRUE, exc |-> "EEException", tasks |-> sub.tasks]
             ELSE [raised |-> FALSE, tasks |-> sub.tasks,
                   result |-> [success |-> TRUE,
                               job_id |-> args.job_id,
                               kpis |-> [job_id |-> args.job_id,
                                         images_processed |-> cond.scenes],
                               vra_stats |-> zones.vra_stats,
                               tasks |-> sub.manifest,
                               task_count |-> Len(sub.manifest),
                               folders |-> Folders(args.job_id)]]

\* main(): prints the result, or {'error', 'traceback'} and exits with 1
main(out) ==
    IF out.raised
    THEN [exit |-> 1, body |-> [error |-> out.exc, traceback |-> TRUE]]
    ELSE [exit |-> 0, body |-> out.result]

\* execute_gee(): {"success": True, "result": result}, or HTTP 500 with the
\* exception text and traceback as detail
execute_gee(out) ==
    IF out.raised
    THEN [exit |-> 500, body |-> [detail |-> out.exc]]
    ELSE [exit |-> 200, body |-> [success |-> TRUE, result |-> out.result]]

----------------------------------------------------------------------------
(* The system *)

NoResponse == [op |-> "none"]

\* the job ids of the jobs table (job_id is unique)
WebhookJobIds == {"JOB_1", "JOB_2"}

\* a row of the jobs table, as far as the webhooks write it: status and
\* whether completed_at is set; NoJob where the table has no row
JobRow(status, completed_at) == [status |-> status, completed_at |-> completed_at]
NoJob == JobRow("none", FALSE)
NoJobs == [job_id \in WebhookJobIds |-> NoJob]

Init ==
    /\ remote = <<>>
    /\ response = NoResponse
    /\ executes = 0
    /\ remoteSteps = 0
    /\ jobs = NoJobs

\* mode execute through either entry point.  The response keeps the
\* arguments, what the platform answered during the call, and the length of
\* the platform's task list when the call began
Execute(args, cond) ==
    /\ executes < MaxExecutes
    /\ LET out == execute_analysis(args, cond, remote)
           answer == IF args.entry = "cli" THEN main(out) ELSE execute_gee(out)
       IN  /\ remote' = out.tasks
           /\ response' = [op |-> "execute", args |-> args, scenes |-> cond.scenes,
                           cond |-> cond, before |-> Len(remote),
                           exit |-> answer.exit, body |-> answer.body]
    /\ executes' = executes + 1
    /\ UNCHANGED <<remoteSteps, jobs>>

\* a mode that is none of the four.  Command line: argparse rejects the
\* value against its choices and exits with 2 before main dispatches.
\* Router: the else branch raises HTTPException(400, "Unknown mode: ...")
\* inside the try, and `except Exception` answers it as HTTP 500 with the
\* exception text and traceback as detail
unknown_mode(entry) ==
    IF entry = "cli"
    THEN [exit |-> 2, body |-> [error |-> "invalid choice"]]
    ELSE [exit |-> 500, body |-> [detail |-> "Unknown mode"]]

\* a call with an unknown mode through either entry point
UnknownMode(entry) ==
    /\ response' = [op |-> "unknown", entry |-> entry,
                    exit |-> unknown_mode(entry).exit,
                    body |-> unknown_mode(entry).body]
    /\ UNCHANGED <<remote, executes, remoteSteps, jobs>>

\* mode check-status
CheckStatus(job_id) ==
    /\ response' = check_status(job_id, TaskList(remote))
    /\ UNCHANGED <<remote, executes, remoteSteps, jobs>>

\* mode download-results
DownloadResults(job_id) ==
    /\ response' = download_results(job_id, TaskList(remote))
    /\ UNCHANGED <<remote, executes, remoteSteps, jobs>>

\* mode start-tasks
StartTasks(job_id) ==
    /\ response' = start_tasks(job_id, TaskList(remote))
    /\ remote' = AfterStart(job_id, TaskList(remote))
    /\ UNCHANGED <<executes, remoteSteps, jobs>>

Terminal == {"COMPLETED", "FAILED", "CANCELLED"}

\* the task the batch system is working on: the first unfinished one of its
\* queue (0 when every task is finished)
RECURSIVE HeadOfQueue(_, _)
HeadOfQueue(tasks, i) ==
    IF i > Len(tasks) THEN 0
    ELSE IF tasks[i].state \notin Terminal THEN i
    ELSE HeadOfQueue(tasks, i + 1)

\* the state changes of a task between two calls of the engine: a queued
\* task may be found running, or already finished
RemoteSuccessors(state) ==
    CASE state = "READY" -> {"RUNNING", "COMPLETED", "FAILED", "CANCELLED"}
      [] state = "RUNNING" -> {"COMPLETED", "FAILED", "CANCEL_REQUESTED"}
      [] state = "CANCEL_REQUESTED" -> {"CANCELLED"}
      [] OTHER -> {}

\* the batch system moves the task it is working on; the engine is between
\* two calls
RemoteAdvance(state) ==
    LET i == HeadOfQueue(remote, 1)
    IN  /\ remoteSteps < MaxRemoteSteps
        /\ i > 0
        /\ state \in RemoteSuccessors(remote[i].state)
        /\ remote' = [remote EXCEPT ![i].state = state]
        /\ response' = NoResponse
        /\ remoteSteps' = remoteSteps + 1
        /\ UNCHANGED <<executes, jobs>>

Next ==
    \/ \E in \in ExecuteInputs : Execute(in.args, in.cond)
    \/ \E job_id \in JobIds : CheckStatus(job_id)
    \/ \E job_id \in JobIds : DownloadResults(job_id)
    \/ \E job_id \in JobIds : StartTasks(job_id)
    \/ \E state \in TaskStates : RemoteAdvance(state)
    \/ \E entry \in {"cli", "http"} : UnknownMode(entry)

Spec == Init /\ [][Next]_vars

----------------------------------------------------------------------------
(* Jobs from execute to download: the batch system runs its whole queue    *)
(* between two calls of the engine                                         *)

\* the batch system works through its queue: the task it is working on ends
\* in head_state, every other unfinished task completes
RemoteDrain(head_state) ==
    LET i == HeadOfQueue(remote, 1)
    IN  /\ i > 0
        /\ head_state \in {"COMPLETED", "FAILED"}
        /\ remote' = [k \in 1..Len(remote) |->
                         IF k = i THEN [remote[k] EXCEPT !.state = head_state]
                         ELSE IF remote[k].state \in Terminal THEN remote[k]
                         ELSE [remote[k] EXCEPT !.state = "COMPLETED"]]
        /\ response' = NoResponse
        /\ UNCHANGED <<executes, remoteSteps, jobs>>

\* command line execute calls on a valid ROI with scenes: the usual one,
\* with zonation failed, with the LST layer unavailable, with PNG export
\* disabled
DownloadInputs ==
    {in \in ExecuteInputs :
        /\ in.args.entry = "cli"
        /\ in.args.roi = "polygon"
        /\ in.cond.scenes > 0
        /\ in.cond.vector
        /\ ~ in.cond.faulty}

NextDownload ==
    \/ \E in \in DownloadInputs : Execute(in.args, in.cond)
    \/ \E head_state \in TaskStates : RemoteDrain(head_state)
    \/ \E job_id \in JobIds : CheckStatus(job_id)
    \/ \E job_id \in JobIds : DownloadResults(job_id)
    \/ \E job_id \in JobIds : StartTasks(job_id)

DownloadSpec == Init /\ [][NextDownload]_vars

----------------------------------------------------------------------------
(* The webhooks that persist the status of a job *)

\* payload.status of WebhookJobCompleted is any str
PayloadStatuses == {"pending", "processing", "completed", "failed"}

\* POST /webhooks/job-started: a Job row with status "processing" under the
\* id JOB_{milliseconds}; the commit fails on the unique job_id when a row
\* of that id exists
webhook_job_started(job_id, table) ==
    IF table[job_id] # NoJob
    THEN [code |-> 500, jobs |-> table]
    ELSE [code |-> 200, jobs |-> [table EXCEPT ![job_id] = JobRow("processing", FALSE)]]

\* POST /webhooks/job-completed: the row of payload.job_id gets
\* payload.status, whatever its status was, and completed_at is set for
\* "completed" and cleared otherwise.  Without a row the handler adds
\* Job(job_id, status), whose commit fails on the columns that are not
\* nullable (client_id, client_email, crop_type, ...)
webhook_job_completed(job_id, status, table) ==
    IF table[job_id] = NoJob
    THEN [code |-> 500, jobs |-> table]
    ELSE [code |-> 200,
          jobs |-> [table EXCEPT ![job_id] = JobRow(status, status = "completed")]]

JobStarted(job_id) ==
    LET out == webhook_job_started(job_id, jobs)
    IN  /\ jobs' = out.jobs
        /\ response' = [op |-> "job_started", job_id |-> job_id, code |-> out.code]
        /\ UNCHANGED <<remote, executes, remoteSteps>>

JobCompleted(job_id, status) ==
    LET out == webhook_job_completed(job_id, status, jobs)
    IN  /\ jobs' = out.jobs
        /\ response' = [op |-> "job_completed", job_id |-> job_id,
                        status |-> status, code |-> out.code]
        /\ UNCHANGED <<remote, executes, remoteSteps>>

NextWebhook ==
    \/ \E job_id \in WebhookJobIds : JobStarted(job_id)
    \/ \E job_id \in WebhookJobIds, status \in PayloadStatuses : JobCompleted(job_id, status)

WebhookSpec == Init /\ [][NextWebhook]_vars

----------------------------------------------------------------------------
(* The status tracker on its own: any list of tasks the platform may hold, *)
(* polled by check-status, download-results and start-tasks                *)

\* a PNG export of one job and a table export of every job id
SampleDescriptions ==
    {<<"J1", "_PNG_", "NDVI">>} \cup {<<j, "_KPIs">> : j \in StatusJobIds}

\* the job id is the first piece of the description execute formats, and
\* the folder the one execute gives to that export
ListedTasks ==
    {Task(d, state, d[1],
          IF d[2] = "_KPIs" THEN Folders(d[1]).data ELSE Folders(d[1]).web) :
        d \in SampleDescriptions, state \in TaskStates}

TaskLists == UNION {[1..n -> ListedTasks] : n \in 0..MaxListed}

InitStatus ==
    /\ remote \in TaskLists
    /\ response = NoResponse
    /\ executes = 0
    /\ remoteSteps = 0
    /\ jobs = NoJobs

NextStatus ==
    \/ \E job_id \in StatusJobIds : CheckStatus(job_id)
    \/ \E job_id \in StatusJobIds : DownloadResults(job_id)
    \/ \E job_id \in StatusJobIds : StartTasks(job_id)

StatusSpec == InitStatus /\ [][NextStatus]_vars

----------------------------------------------------------------------------
(* The zonation on its own: every mean NDVI of the clusters and every      *)
(* numbering the clusterer may give them                                   *)

ZonationInputs ==
    {Zonation(TRUE, means, ids) : means \in [Clusters -> MeanValues], ids \in ClusterIds}
    \cup {Zonation(FALSE, ZonationOf(Nominal).means, ZonationOf(Nominal).ids)}

\* what the outputs of execute say about each cluster: the label and the
\* recommendation of the summary that carries its raw id, and its colour in
\* the PNG_VRA image
VigorMeaning(zone, vra_stats) ==
    [c \in Clusters |->
        LET stat == vra_stats[CHOOSE i \in 1..Len(vra_stats) : vra_stats[i].zone = zone[c]]
        IN  [label |-> stat.label,
             recommendation |-> stat.recommendation,
             colour |-> VraVisualized(zone)[c]]]

\* the zonation step of one execute call: calculate_vra_zones, then the
\* visualization of the zone image for PNG_VRA
VraZones(z) ==
    /\ response = NoResponse
    /\ LET out == calculate_vra_zones(z)
       IN  response' =
               IF out.none
               THEN [op |-> "calculate_vra_zones", z |-> z, none |-> TRUE,
                     vra_stats |-> out.vra_stats]
               ELSE [op |-> "calculate_vra_zones", z |-> z, none |-> FALSE,
                     vra_stats |-> out.vra_stats,
                     meaning |-> VigorMeaning(out.zone, out.vra_stats)]
    /\ UNCHANGED <<remote, executes, remoteSteps, jobs>>

NextZones == \E z \in ZonationInputs : VraZones(z)

ZoneSpec == Init /\ [][NextZones]_vars

----------------------------------------------------------------------------
(* The generated script (gee_script_generator.py): phenological context    *)
(* and the KPIs it exports, and the stress KPIs of the engine.  NDVI       *)
(* values are integers in 1/1000; a quotient is kept as numerator and      *)
(* denominator                                                             *)

Null == [null |-> TRUE, num |-> 0, den |-> 1]
Number(num, den) == [null |-> FALSE, num |-> num, den |-> den]

\* ee.Number.gt on a quotient and an integer
Gt(x, k) == x.num > k * x.den

\* ee.Number.gte in place of gt
Gte(x, k) == x.num >= k * x.den

\* how ee.Algorithms.If reads a condition that is not a boolean: null is
\* false, the number 0 is false, every other number is true
Truthy(x) == ~ x.null /\ x.num # 0

\* one nested ee.Algorithms.If(doy.lt(bound), value, ...) of a curve
Stage(bound, value) == [lt |-> bound, value |-> value]

\* getExpectedNDVI_Olivo
Olivo ==
    [stages |-> <<Stage(32, 280), Stage(60, 320), Stage(91, 420), Stage(121, 520),
                  Stage(152, 580), Stage(182, 620), Stage(213, 550), Stage(244, 480),
                  Stage(274, 450), Stage(305, 400), Stage(335, 350)>>,
     last |-> 280]

\* getExpectedNDVI_Vina
Vina ==
    [stages |-> <<Stage(60, 180), Stage(91, 220), Stage(121, 350), Stage(152, 500),
                  Stage(182, 580), Stage(213, 520), Stage(244, 450), Stage(274, 400),
                  Stage(305, 320), Stage(335, 220)>>,
     last |-> 180]

\* getExpectedNDVI_Almendro
Almendro ==
    [stages |-> <<Stage(32, 250), Stage(60, 220), Stage(91, 380), Stage(121, 520),
                  Stage(152, 620), Stage(182, 650), Stage(213, 580), Stage(244, 500),
                  Stage(274, 420), Stage(305, 350), Stage(335, 280)>>,
     last |-> 250]

\* the nested ifs of a curve: the value of the first stage whose bound is
\* above doy, the last value when there is none
RECURSIVE CurveFrom(_, _, _)
CurveFrom(curve, k, doy) ==
    IF k > Len(curve.stages) THEN curve.last
    ELSE IF doy < curve.stages[k].lt THEN curve.stages[k].value
    ELSE CurveFrom(curve, k + 1, doy)

\* CROP_TYPE values the generator writes into the script
CropTypes == {"olivo", "vina", "almendro", "otro"}

\* crop_type_map
crop_type_map ==
    [key \in {"olivo", "olivar", "oliva"} |-> "olivo"]
    @@ [key \in {"viña", "viñedo", "vid", "vino"} |-> "vina"]
    @@ [key \in {"almendro", "almendra", "almendral"} |-> "almendro"]

\* the crop_type arguments explored: keys of the map, keys in capitals or
\* with blanks around them, and names that are no key
CropTypeInputs ==
    {"olivo", "viñedo", "almendral", "trigo", "Olivar ", " VID", "vina", "otro"}

\* crop_type.lower().strip() on these arguments
LowerStrip(crop_type) ==
    CASE crop_type = "Olivar " -> "olivar"
      [] crop_type = " VID" -> "vid"
      [] OTHER -> crop_type

\* a name that is no key is treated as an olive grove
GeeCropTypeDefaultOlivo(crop_type) ==
    IF LowerStrip(crop_type) \in DOMAIN crop_type_map
    THEN crop_type_map[LowerStrip(crop_type)]
    ELSE "olivo"

\* gee_crop_type = crop_type_map.get(crop_type.lower().strip(), 'otro')
gee_crop_type(crop_type) ==
    IF LowerStrip(crop_type) \in DOMAIN crop_type_map
    THEN crop_type_map[LowerStrip(crop_type)]
    ELSE "otro"

\* getExpectedNDVI(cropType, doy): null for a crop without a curve
getExpectedNDVI(cropType, doy) ==
    IF cropType = "olivo" THEN Number(CurveFrom(Olivo, 1, doy), 1)
    ELSE IF cropType = "vina" THEN Number(CurveFrom(Vina, 1, doy), 1)
    ELSE IF cropType = "almendro" THEN Number(CurveFrom(Almendro, 1, doy), 1)
    ELSE Null

\* the days of a year, numbered from 1 (1 January) to 366
CalendarDays == 1..366

\* lastImageDate.getRelative('day', 'year'): the platform counts the days of
\* the year from 0, so 1 January gives 0
getRelativeDayOfYear(day) == day - 1

\* the condition with the standard deviation alone
SeasonalEnoughStdOnly(count, std) == std > 1

\* seasonalCount.gte(3).and(seasonalStd.gt(0.001)); std is in 1/1000
SeasonalEnough(count, std) == count >= 3 /\ std > 1

\* ndvi_zscore_seasonal
SeasonalZscore(ndvi_now, count, mean, std) ==
    IF SeasonalEnough(count, std) THEN Number(ndvi_now - mean, std) ELSE Null

\* ndvi_deviation
Deviation(ndvi_now, expected) ==
    IF Truthy(expected) THEN Number(ndvi_now - expected.num, 1) ELSE Null

\* ndvi_deviation_pct
DeviationPct(deviation, expected) ==
    IF Truthy(expected) THEN Number(deviation.num * 100, expected.num) ELSE Null

\* the bands with gte in place of gt
BandsInclusive(x, high, mid, low) ==
    IF Gte(x, high) THEN "adelantado"
    ELSE IF Gte(x, mid) THEN "normal"
    ELSE IF Gte(x, low) THEN "retrasado"
    ELSE "critico"

\* the three nested ifs on gt(high), gt(mid), gt(low)
Bands(x, high, mid, low) ==
    IF Gt(x, high) THEN "adelantado"
    ELSE IF Gt(x, mid) THEN "normal"
    ELSE IF Gt(x, low) THEN "retrasado"
    ELSE "critico"

\* pheno_status
PhenoStatus(expected, deviation_pct, zscore_seasonal) ==
    IF Truthy(expected) THEN Bands(deviation_pct, 15, -10, -25)
    ELSE IF Truthy(zscore_seasonal) THEN Bands(zscore_seasonal, 1, -1, -2)
    ELSE "sin_datos"

\* stressPct = stressHa.divide(areaHa).multiply(100): a floating-point
\* quotient, not finite (denominator 0 here) when areaHa is 0
StressPctScript(stress_ha, area_ha) == Number(stress_ha * 100, area_ha)

\* ndvi_z = If(ndvi_series_std.gt(0), (ndvi_now - ndvi_series_mean) /
\* ndvi_series_std, 0): the z-score against the whole NDVI time series
SeriesZscore(ndvi_now, series_mean, series_std) ==
    IF series_std > 0 THEN Number(ndvi_now - series_mean, series_std)
    ELSE Number(0, 1)

\* what one run of the script computes for the KPI table.  in: the crop
\* type, the calendar day of the last image, its mean NDVI, the count, mean
\* and standard deviation of the seasonal samples, the stress area and
\* ROI area in hectares, and the mean and standard deviation of the whole
\* NDVI time series
ScriptKpis(in) ==
    LET currentDOY == getRelativeDayOfYear(in.day)
        zscore == SeasonalZscore(in.ndvi_now, in.count, in.mean, in.std)
        expected == getExpectedNDVI(in.crop, currentDOY)
        deviation == Deviation(in.ndvi_now, expected)
        deviation_pct == DeviationPct(deviation, expected)
    IN  [op |-> "script", in |-> in,
         doy |-> currentDOY,
         ndvi_zscore |-> SeriesZscore(in.ndvi_now, in.series_mean, in.series_std),
         ndvi_zscore_seasonal |-> zscore,
         ndvi_expected |-> expected,
         ndvi_deviation |-> deviation,
         ndvi_deviation_pct |-> deviation_pct,
         pheno_status |-> PhenoStatus(expected, deviation_pct, zscore),
         area_total_ha |-> in.area_ha,
         area_estres_ha |-> in.stress_ha,
         area_estres_pct |-> StressPctScript(in.stress_ha, in.area_ha)]

ScriptInput(crop_type, day, ndvi_now, count, mean, std, stress_ha, area_ha) ==
    [crop_type |-> crop_type, crop |-> gee_crop_type(crop_type),
     day |-> day, ndvi_now |-> ndvi_now,
     count |-> count, mean |-> mean, std |-> std,
     stress_ha |-> stress_ha, area_ha |-> area_ha,
     series_mean |-> 400, series_std |-> 50]

\* the same run over a time series of another mean and standard deviation
SeriesInput(in, series_mean, series_std) ==
    [in EXCEPT !.series_mean = series_mean, !.series_std = series_std]

\* stress area and ROI area, in hectares: the stress area is part of the ROI
AreaInputs ==
    {a \in [stress_ha : 0..MaxAreaHa, area_ha : 0..MaxAreaHa] : a.stress_ha <= a.area_ha}

\* the runs explored: every crop on every day of the year, on two days every
\* combination of the sample NDVI values and seasonal statistics, on one
\* day every stress area and ROI area, and on one day time series with and
\* without spread
ScriptInputs ==
    {SeriesInput(ScriptInput("olivo", 170, ndvi_now, 0, 0, 0, 1, 4), series_mean, series_std) :
        ndvi_now \in {300, 400, 450}, series_mean \in {400, 420}, series_std \in {0, 1, 50}}
    \cup
    {ScriptInput(crop_type, day, 300, 0, 0, 0, 1, 4) :
        crop_type \in CropTypeInputs, day \in CalendarDays}
    \cup {ScriptInput("olivo", 170, 300, 0, 0, 0, a.stress_ha, a.area_ha) : a \in AreaInputs}
    \cup {in \in
            {ScriptInput(crop_type, day, ndvi_now, count, mean, std, 1, 4) :
                crop_type \in {"olivo", "viñedo", "almendral", "trigo"}, day \in {170, 280},
                ndvi_now \in {300, 301, 350, 360, 361, 400, 450, 460, 461, 500},
                count \in {0, 2, 3, 4}, mean \in {400, 450}, std \in {0, 1, 2, 50}} :
            in.count = 0 => in.std = 0}

\* one run of the generated script on the platform
RunScript(in) ==
    /\ response = NoResponse
    /\ response' = ScriptKpis(in)
    /\ UNCHANGED <<remote, executes, remoteSteps, jobs>>

\* execute_analysis: stress_pct = (stress_ha / area_ha * 100) if area_ha > 0 else 0
StressPct(stress_ha, area_ha) ==
    IF area_ha > 0 THEN Number(stress_ha * 100, area_ha) ELSE Number(0, 1)

\* Python round(x, 1) of a quotient, kept in tenths
Round1(x) == IF x.null THEN Null ELSE Number(RoundHalfEven(x.num * 10, x.den), 10)

\* Python's x or default: None and 0 give the default
Or(x, default) == IF x.null \/ x.num = 0 THEN default ELSE x

\* Python round(x, 2) of a quotient, kept in hundredths
Round2(x) == Number(RoundHalfEven(x.num * 100, x.den), 100)

\* z_score = (ndvi_mean - hist_mean) / hist_std if hist_std > 0 else 0, the
\* three operands as the three lines before it leave them; NDVI values in
\* 1/1000, so the default 0.1 is 100
ZScore(stats_mean, hist_stats_mean, hist_stats_std) ==
    LET ndvi_mean == Or(stats_mean, Number(0, 1))
        hist_mean == Or(hist_stats_mean, ndvi_mean)
        hist_std == Or(hist_stats_std, Number(100, 1))
    IN  IF hist_std.num > 0 THEN Number(ndvi_mean.num - hist_mean.num, hist_std.num)
        ELSE Number(0, 1)

\* the stress and z-score entries of the kpis dict of execute_analysis
StressKpis(in) ==
    [op |-> "kpis", in |-> in,
     area_hectares |-> in.area_ha,
     stress_area_ha |-> in.stress_ha,
     ndvi_zscore |-> Round2(ZScore(in.ndvi_mean, in.hist_mean, in.hist_std)),
     stress_area_pct |-> Round1(StressPct(in.stress_ha, in.area_ha))]

\* what the two reduceRegion calls return for the current composite and
\* for the mean image of the collection: numbers in 1/1000, or None
HistoryInputs ==
    [ndvi_mean : {Null, Number(0, 1), Number(300, 1), Number(450, 1)},
     hist_mean : {Null, Number(400, 1), Number(450, 1)},
     hist_std : {Null, Number(0, 1), Number(50, 1), Number(200, 1)}]

\* the KPI inputs of one execute call: the areas and the statistics read
KpiInput(a, h) ==
    [stress_ha |-> a.stress_ha, area_ha |-> a.area_ha,
     ndvi_mean |-> h.ndvi_mean, hist_mean |-> h.hist_mean, hist_std |-> h.hist_std]

\* every pair of areas with one set of statistics, and every set of
\* statistics with one pair of areas
KpiInputs ==
    {KpiInput(a, [ndvi_mean |-> Number(450, 1), hist_mean |-> Number(400, 1),
                  hist_std |-> Number(50, 1)]) : a \in AreaInputs}
    \cup {KpiInput([stress_ha |-> 1, area_ha |-> 4], h) : h \in HistoryInputs}

\* the KPI computation of one execute call of the engine
ExecuteKpis(in) ==
    /\ response = NoResponse
    /\ response' = StressKpis(in)
    /\ UNCHANGED <<remote, executes, remoteSteps, jobs>>

\* var windowDays = 21
windowDays == 21

\* a scene of the collection: its year and its calendar day (1 January is 1)
Scene(year, day) == [year |-> year, day |-> day]

\* ee.Filter.dayOfYear(start, end) on a scene: the platform numbers the days
\* of the year from 1 and takes both ends as inclusive (a range whose end is
\* below its start wraps around the end of the year)
dayOfYear(scene, start, end) ==
    IF start <= end
    THEN start <= scene.day /\ scene.day <= end
    ELSE scene.day >= start \/ scene.day <= end

\* membership of seasonalCol: the filter on dayOfYear(doyMin, doyMax) and on
\* system:time_start < 1 January of currentYear, for the last image LAST
seasonalCol(scene, LAST) ==
    LET currentDOY == getRelativeDayOfYear(LAST.day)
        currentYear == LAST.year
        doyMin == currentDOY - windowDays
        doyMax == currentDOY + windowDays
    IN  /\ dayOfYear(scene, doyMin, doyMax)
        /\ scene.year < currentYear

\* the years of the collection: the year of the last image and the one before
SceneYears == {2023, 2024}

\* the last image on every day of the year, with one other scene of the
\* collection: around both ends of the window in either year, on the day of
\* the last image, and on the first and last day of the year; a scene of
\* the year of the last image is not later than it
SeasonalInputs ==
    {in \in [LAST : {Scene(2024, day) : day \in CalendarDays},
             scene : {Scene(year, day) : year \in SceneYears, day \in CalendarDays}] :
        /\ \/ in.scene.day - in.LAST.day \in {-23, -22, -21, -20, 0, 20, 21, 22, 23}
           \/ in.scene.day \in {1, 366}
        /\ in.scene.year = in.LAST.year => in.scene.day <= in.LAST.day}

\* the seasonal filter of one run of the script, seen on one scene
SeasonalFilter(in) ==
    /\ response = NoResponse
    /\ response' = [op |-> "seasonal", LAST |-> in.LAST, scene |-> in.scene,
                    selected |-> seasonalCol(in.scene, in.LAST)]
    /\ UNCHANGED <<remote, executes, remoteSteps, jobs>>

NextScript ==
    \/ \E in \in ScriptInputs : RunScript(in)
    \/ \E in \in KpiInputs : ExecuteKpis(in)
    \/ \E in \in SeasonalInputs : SeasonalFilter(in)

ScriptSpec == Init /\ [][NextScript]_vars

----------------------------------------------------------------------------
(* The script generator (gee_script_generator.py): the ROI it writes into  *)
(* the script.  A JSON value is a record tagged by its Python type         *)

JNull == [t |-> "null"]
JNum(n) == [t |-> "num", n |-> n]
JList(items) == [t |-> "list", items |-> items]
\* a dict, as the record of its keys: type (a string), coordinates,
\* features, geometry
JDict(d) == [t |-> "dict", d |-> d]
\* a Python str: text that json.loads rejects, or the text of a JSON value
JText(json) == [t |-> "str", ok |-> TRUE, json |-> json]
JBadText == [t |-> "str", ok |-> FALSE]

\* Python truth value: None, 0 and empty containers are false
PyTruth(j) ==
    CASE j.t = "null" -> FALSE
      [] j.t = "num" -> j.n # 0
      [] j.t = "list" -> j.items # <<>>
      [] j.t = "dict" -> DOMAIN j.d # {}
      [] j.t = "str" -> TRUE

IsList(j) == j.t = "list"

\* dict.get(key, default)
Get(j, key, default) == IF key \in DOMAIN j.d THEN j.d[key] ELSE default

Return(value) == [raised |-> FALSE, value |-> value]
Raise(exc) == [raised |-> TRUE, exc |-> exc]

\* the branch `if 'coordinates' in geojson` for a dict of no known type
LegacyCoordinates(g) ==
    IF "coordinates" \notin DOMAIN g.d THEN Return(JList(<<>>))
    ELSE LET coordinates == g.d.coordinates
         IN  IF ~ PyTruth(coordinates) THEN Return(JList(<<>>))
             ELSE IF ~ IsList(coordinates.items[1]) THEN Return(coordinates)
             ELSE IF coordinates.items[1].items = <<>> THEN Raise("IndexError")
             ELSE IF ~ IsList(coordinates.items[1].items[1]) THEN Return(coordinates)
             ELSE IF coordinates.items[1].items[1].items = <<>> THEN Raise("IndexError")
             ELSE IF IsList(coordinates.items[1].items[1].items[1])
             THEN Return(coordinates.items[1].items[1])
             ELSE Return(coordinates.items[1])

\* the Polygon branch: the first (exterior) ring
PolygonCoordinates(g) ==
    LET coordinates == Get(g, "coordinates", JList(<<>>))
    IN  IF PyTruth(coordinates) THEN Return(coordinates.items[1]) ELSE Return(JList(<<>>))

\* the MultiPolygon branch: the first ring of the first polygon
MultiPolygonCoordinates(g) ==
    LET coordinates == Get(g, "coordinates", JList(<<>>))
    IN  IF ~ PyTruth(coordinates) THEN Return(JList(<<>>))
        ELSE IF ~ IsList(coordinates.items[1]) THEN Raise("TypeError")
        ELSE IF coordinates.items[1].items # <<>>
        THEN Return(coordinates.items[1].items[1])
        ELSE Return(JList(<<>>))

RECURSIVE extract_coordinates(_)
extract_coordinates(geojson) ==
    IF geojson.t = "null" THEN Return(JList(<<>>))
    ELSE IF geojson.t = "str" /\ ~ geojson.ok THEN Return(JList(<<>>))
    ELSE LET g == IF geojson.t = "str" THEN geojson.json ELSE geojson
         IN  IF g.t # "dict" THEN Return(JList(<<>>))
             ELSE LET geo_type == Get(g, "type", "")
                  IN  IF geo_type = "FeatureCollection"
                      THEN LET features == Get(g, "features", JList(<<>>))
                           IN  IF PyTruth(features)
                               THEN extract_coordinates(features.items[1])
                               ELSE Return(JList(<<>>))
                      ELSE IF geo_type = "Feature"
                      THEN LET geometry == Get(g, "geometry", JNull)
                           IN  IF PyTruth(geometry)
                               THEN extract_coordinates(geometry)
                               ELSE Return(JList(<<>>))
                      ELSE IF geo_type = "Polygon" THEN PolygonCoordinates(g)
                      ELSE IF geo_type = "MultiPolygon" THEN MultiPolygonCoordinates(g)
                      ELSE LegacyCoordinates(g)

\* generate_gee_script, as far as the ROI goes: json.loads of a str argument,
\* extract_coordinates, the ValueError when it gives nothing, and the coords
\* written into the script
generate_gee_script(roi_geojson) ==
    IF roi_geojson.t = "str" /\ ~ roi_geojson.ok THEN Raise("JSONDecodeError")
    ELSE LET parsed == IF roi_geojson.t = "str" THEN roi_geojson.json ELSE roi_geojson
             coords == extract_coordinates(parsed)
         IN  IF coords.raised THEN coords
             ELSE IF ~ PyTruth(coords.value) THEN Raise("ValueError")
             ELSE Return([coords |-> coords.value])

\* positions [lon, lat] and rings of them
Position(lon, lat) == JList(<<JNum(lon), JNum(lat)>>)
Ring1 == JList(<<Position(1, 1), Position(3, 1), Position(2, 3), Position(1, 1)>>)
Ring2 == JList(<<Position(5, 5), Position(7, 5), Position(6, 7), Position(5, 5)>>)

\* values of the coordinates key: of a polygon, of a multipolygon, of a
\* point, and the empty ones at every depth
PolygonCoords == {JList(<<Ring1>>), JList(<<Ring1, Ring2>>), JList(<<Ring2>>)}
MultiPolygonCoords ==
    {JList(<<JList(<<Ring1>>)>>),
     JList(<<JList(<<Ring1>>), JList(<<Ring2>>)>>),
     JList(<<JList(<<Ring2>>), JList(<<Ring1>>)>>)}
EmptyCoords == {JList(<<>>), JList(<<JList(<<>>)>>), JList(<<JList(<<JList(<<>>)>>)>>)}
SampleCoords == PolygonCoords \cup MultiPolygonCoords \cup EmptyCoords \cup {Position(1, 1)}

\* geometry objects: every type with and without every coordinates value
SampleGeometries ==
    {JDict([type |-> type]) : type \in {"Polygon", "MultiPolygon", "Point"}}
    \cup {JDict([type |-> type, coordinates |-> c]) :
            type \in {"Polygon", "MultiPolygon", "Point"}, c \in SampleCoords}
    \cup {JDict([coordinates |-> c]) : c \in SampleCoords}

SampleFeatures ==
    {JDict([type |-> "Feature"]), JDict([type |-> "Feature", geometry |-> JNull])}
    \cup {JDict([type |-> "Feature", geometry |-> g]) : g \in SampleGeometries}

SampleCollections ==
    {JDict([type |-> "FeatureCollection"]),
     JDict([type |-> "FeatureCollection", features |-> JList(<<>>)])}
    \cup {JDict([type |-> "FeatureCollection", features |-> JList(<<f>>)]) :
            f \in SampleFeatures}
    \cup {JDict([type |-> "FeatureCollection", features |-> JList(<<f, g>>)]) :
            f, g \in {JDict([type |-> "Feature",
                             geometry |-> JDict([type |-> "Polygon", coordinates |-> c])]) :
                        c \in PolygonCoords}}

\* the roi_geojson arguments explored: None, values that are not a dict,
\* text that is not JSON, every sample object, and the JSON text of the
\* geometries
RoiGeojsonInputs ==
    {JNull, JNum(7), JList(<<>>), Ring1, JBadText, JText(JNull), JText(JNum(7)), JDict([type |-> "GeometryCollection"])}
    \cup SampleGeometries \cup SampleFeatures \cup SampleCollections
    \cup {JText(g) : g \in SampleGeometries}

\* a position [lon, lat], a ring of positions, the rings of a polygon
IsPosition(j) ==
    /\ IsList(j)
    /\ Len(j.items) = 2
    /\ \A n \in 1..2 : j.items[n].t = "num"

IsLinearRing(j) ==
    /\ IsList(j)
    /\ j.items # <<>>
    /\ \A k \in 1..Len(j.items) : IsPosition(j.items[k])

IsPolygonCoordinates(j) ==
    /\ IsList(j)
    /\ j.items # <<>>
    /\ \A k \in 1..Len(j.items) : IsLinearRing(j.items[k])

\* ee.Geometry(geo_json): the geometry of a well-formed GeoJSON geometry,
\* here as the list of its polygons, every polygon with all its rings (a
\* Point has none); the library raises EEException for anything else
ee_Geometry(geo_json) ==
    IF geo_json.t # "dict" THEN Raise("EEException")
    ELSE IF "coordinates" \notin DOMAIN geo_json.d THEN Raise("EEException")
    ELSE LET type == Get(geo_json, "type", "")
             coordinates == geo_json.d.coordinates
         IN  IF type = "Polygon" /\ IsPolygonCoordinates(coordinates)
             THEN Return(<<coordinates>>)
             ELSE IF /\ type = "MultiPolygon"
                     /\ IsList(coordinates)
                     /\ coordinates.items # <<>>
                     /\ \A k \in 1..Len(coordinates.items) :
                            IsPolygonCoordinates(coordinates.items[k])
             THEN Return(coordinates.items)
             ELSE IF type = "Point" /\ IsPosition(coordinates)
             THEN Return(<<>>)
             ELSE Raise("EEException")

\* the geometries of features k.. of a collection, one after the other
RECURSIVE FeatureGeometries(_, _)
FeatureGeometries(features, k) ==
    IF k > Len(features) THEN Return(<<>>)
    ELSE LET f == features[k]
             head == IF f.t = "dict" /\ "geometry" \in DOMAIN f.d
                     THEN ee_Geometry(f.d.geometry)
                     ELSE Raise("EEException")
             rest == FeatureGeometries(features, k + 1)
         IN  IF head.raised THEN head
             ELSE IF rest.raised THEN rest
             ELSE Return(head.value \o rest.value)

\* ee.FeatureCollection(geojson).geometry() on a GeoJSON dict.  The source
\* does not say what the library does with a dict: it either rejects the
\* argument (accepts = FALSE) or builds the collection of every feature,
\* whose geometry is the union of all their geometries
ee_FeatureCollection_geometry(geojson, accepts) ==
    IF ~ accepts THEN Raise("EEException")
    ELSE LET features == Get(geojson, "features", JNull)
         IN  IF ~ IsList(features) THEN Raise("EEException")
             ELSE FeatureGeometries(features.items, 1)

\* create_roi on the text it is given (buffer 0): json.loads, the three
\* branches on the type, and every exception re-raised as ValueError
create_roi_from(geojson_str, accepts) ==
    IF geojson_str.t # "str" \/ ~ geojson_str.ok THEN Raise("ValueError")
    ELSE LET geojson == geojson_str.json
         IN  IF geojson.t # "dict" THEN Raise("ValueError")
             ELSE LET type == Get(geojson, "type", "")
                      roi == IF type = "FeatureCollection"
                             THEN ee_FeatureCollection_geometry(geojson, accepts)
                             ELSE IF type = "Feature"
                             THEN IF "geometry" \in DOMAIN geojson.d
                                  THEN ee_Geometry(geojson.d.geometry)
                                  ELSE Raise("KeyError")
                             ELSE ee_Geometry(geojson)
                  IN  IF roi.raised THEN Raise("ValueError") ELSE roi

\* the --roi values explored: none, text that is not JSON, and the JSON
\* text of every sample object
RoiTexts ==
    {JNull, JBadText, JText(JNull), JText(JNum(7))}
    \cup {JText(g) : g \in SampleGeometries \cup SampleFeatures \cup SampleCollections}

\* one call of create_roi
CreateRoi(geojson_str, accepts) ==
    /\ response' = [op |-> "create_roi", geojson_str |-> geojson_str,
                    accepts |-> accepts,
                    out |-> create_roi_from(geojson_str, accepts)]
    /\ UNCHANGED <<remote, executes, remoteSteps, jobs>>

\* one call of generate_gee_script
GenerateScript(roi_geojson) ==
    /\ response' = [op |-> "generate_gee_script", roi_geojson |-> roi_geojson,
                    out |-> generate_gee_script(roi_geojson)]
    /\ UNCHANGED <<remote, executes, remoteSteps, jobs>>

NextGenerator ==
    \/ \E roi_geojson \in RoiGeojsonInputs : GenerateScript(roi_geojson)
    \/ \E geojson_str \in RoiTexts, accepts \in BOOLEAN : CreateRoi(geojson_str, accepts)

GeneratorSpec == Init /\ [][NextGenerator]_vars

----------------------------------------------------------------------------
(* Properties *)

\* the tasks of the platform's list whose description contains job_id
Matched(job_id) ==
    {i \in 1..Len(remote) : Infix(remote[i].description, job_id)}

\* the tasks that execute calls for job_id started
Owned(job_id) == {i \in 1..Len(remote) : remote[i].job = job_id}

\* C1: check_status puts every task whose description contains job_id into
\* exactly one of the four buckets: total is the number of matched tasks and
\* completed + running + failed + pending = total, whatever the task states
C1_BucketsAddUp ==
    response.op = "check_status" =>
        /\ response.total = Cardinality(Matched(response.job_id))
        /\ response.completed + response.running + response.failed
               + response.pending = response.total

\* a check_status answer over two matched tasks, one of them in a state
\* other than COMPLETED, RUNNING, READY, FAILED
C1_Witness ==
    /\ response.op = "check_status"
    /\ response.total = 2
    /\ \E i \in Matched(response.job_id) :
           remote[i].state \in {"CANCELLED", "CANCEL_REQUESTED", "UNSUBMITTED"}

\* C2: all_complete is true iff total > 0 and completed = total (the
\* running = 0 and pending = 0 conjuncts of the code add nothing)
C2_AllCompleteIff ==
    response.op = "check_status" =>
        (response.all_complete <=>
            (response.total > 0 /\ response.completed = response.total))

\* a check_status answer with all_complete over two tasks
C2_Witness ==
    /\ response.op = "check_status"
    /\ response.all_complete
    /\ response.total = 2

\* C3: download_results answers 'ready' with download_ready and the file
\* list exactly when check_status on the same task states has all_complete
\* (then progress_pct is 100); otherwise 'waiting', not download_ready, with
\* the current progress
C3_ReadyIffAllComplete ==
    response.op = "download_results" =>
        LET now == check_status(response.job_id, TaskList(remote))
            all_done == /\ Matched(response.job_id) # {}
                        /\ \A i \in Matched(response.job_id) :
                               remote[i].state = "COMPLETED"
        IN  /\ now.all_complete <=> all_done
            /\ IF all_done
               THEN /\ response.status = "ready"
                    /\ response.download_ready
                    /\ response.files = Files
                    /\ now.progress_pct = 100
               ELSE /\ response.status = "waiting"
                    /\ ~ response.download_ready
                    /\ response.progress = now

\* download_results answered 'ready' for a job with two tasks
C3_Witness ==
    /\ response.op = "download_results"
    /\ response.status = "ready"
    /\ Cardinality(Matched(response.job_id)) = 2

\* C4: re-invoking execute for a job id that already has export tasks does
\* not duplicate them: the platform never holds two tasks with the same
\* description
C4_NoDuplicateTasks ==
    \A i, k \in 1..Len(remote) :
        i # k => remote[i].description # remote[k].description

\* C5: jobs with different job ids are independent: check_status(A) and
\* download_results(A) count only the tasks execute started for A, and
\* start_tasks(A) starts only tasks started for A
C5_JobsIndependent ==
    /\ response.op = "check_status" =>
           response.total = Cardinality(Owned(response.job_id))
    /\ (response.op = "download_results" /\ response.status = "waiting") =>
           response.progress.total = Cardinality(Owned(response.job_id))
    /\ response.op = "start_tasks" =>
           response.started_ids \subseteq Owned(response.job_id)

\* what an execute call handed back: the printed object of main(), the
\* result inside the router's wrapper, or the router's HTTP 500 body
Payload(r) ==
    IF r.args.entry = "http" /\ r.exit = 200 THEN r.body.result ELSE r.body

IsError(r) == "error" \in DOMAIN Payload(r) \/ "detail" \in DOMAIN Payload(r)

\* the ids of the tasks the platform received during the last execute call
Submitted(r) == (r.before + 1)..Len(remote)

\* C6: when the ROI cannot be parsed or no scene matches, execute ends with
\* an error, returns no KPI record, and has submitted no export task
C6_AbortSubmitsNothing ==
    (/\ response.op = "execute"
     /\ (response.args.roi \in {"not_json", "no_geometry"} \/ response.scenes = 0)) =>
        /\ IsError(response)
        /\ "kpis" \notin DOMAIN Payload(response)
        /\ Submitted(response) = {}

\* an execute call on a valid ROI that found no scene, on a platform that
\* already holds tasks, has ended
C6_Witness ==
    /\ response.op = "execute"
    /\ response.args.roi = "polygon"
    /\ response.scenes = 0
    /\ response.before > 0
    /\ IsError(response)

\* C7: every execute call ends either with a complete result (KPIs and a
\* manifest of every task submitted) or with an error object that names the
\* job id and the reason
C7_ResultOrNamedError ==
    response.op = "execute" =>
        \/ /\ "kpis" \in DOMAIN Payload(response)
           /\ {Payload(response).tasks[k].id :
                   k \in 1..Len(Payload(response).tasks)} = Submitted(response)
        \/ /\ "error" \in DOMAIN Payload(response)
           /\ "job_id" \in DOMAIN Payload(response)
           /\ Payload(response).job_id = response.args.job_id
           /\ Submitted(response) = {}

\* the matched tasks whose description contains the text PNG
MatchedPng(job_id) == {i \in Matched(job_id) : Infix(remote[i].description, "PNG")}

\* C8 as stated: png_complete is true iff every PNG task among the matched
\* tasks is COMPLETED, also when there is no PNG task
C8_PngCompleteIffAll ==
    response.op = "check_status" =>
        (response.png_complete <=>
            \A i \in MatchedPng(response.job_id) : remote[i].state = "COMPLETED")

\* C8 amended: png_complete is true iff at least one matched task has PNG in
\* its description and every such task is COMPLETED, whatever the state of
\* the other matched tasks; with no such task it is false
C8_PngCompleteIffSomeAndAll ==
    response.op = "check_status" =>
        (response.png_complete <=>
            /\ MatchedPng(response.job_id) # {}
            /\ \A i \in MatchedPng(response.job_id) : remote[i].state = "COMPLETED")

\* a check_status answer with png_complete while a matched task without PNG
\* in its description is not COMPLETED
C8_Witness ==
    /\ response.op = "check_status"
    /\ response.png_complete
    /\ \E i \in Matched(response.job_id) \ MatchedPng(response.job_id) :
           remote[i].state # "COMPLETED"

\* the matched tasks in state READY
MatchedReady(job_id) == {i \in Matched(job_id) : remote[i].state = "READY"}

\* C9: start_tasks calls start() on exactly the matched tasks in state
\* READY (never on a RUNNING, COMPLETED or FAILED one) and returns their
\* number as started; a second start_tasks call for the same job right after
\* the first leaves the task list as the first left it
C9_StartStep ==
    response'.op = "start_tasks" =>
        /\ response'.started_ids = MatchedReady(response'.job_id)
        /\ response'.started = Cardinality(MatchedReady(response'.job_id))
        /\ (response.op = "start_tasks" /\ response.job_id = response'.job_id) =>
               /\ remote' = remote
               /\ response' = response

C9_StartsReadyIdempotent == [][C9_StartStep]_vars

\* a start_tasks answer that started a task and left a RUNNING or finished
\* matched task alone
C9_Witness ==
    /\ response.op = "start_tasks"
    /\ response.started >= 1
    /\ \E i \in Matched(response.job_id) :
           /\ remote[i].state \in {"RUNNING", "COMPLETED", "FAILED"}
           /\ i \notin response.started_ids

\* C10: check_status, download_results and start_tasks neither change a
\* FAILED task nor create a task, and a check_status answer given while a
\* task of the job is FAILED has failed >= 1 and any_failed; any_failed is
\* true iff failed > 0
C10_PollStep ==
    response'.op \in {"check_status", "download_results", "start_tasks"} =>
        /\ Len(remote') = Len(remote)
        /\ \A i \in 1..Len(remote) :
               remote[i].state = "FAILED" => remote'[i] = remote[i]

C10_FailedSurfaced ==
    response.op = "check_status" =>
        /\ response.any_failed <=> response.failed > 0
        /\ (\E i \in Owned(response.job_id) : remote[i].state = "FAILED") =>
               (response.failed >= 1 /\ response.any_failed)

C10_FailedNeverRetried == [][C10_PollStep]_vars /\ []C10_FailedSurfaced

\* a check_status answer for a job one of whose tasks is FAILED
C10_Witness ==
    /\ response.op = "check_status"
    /\ response.failed >= 1
    /\ \E i \in Owned(response.job_id) : remote[i].state = "FAILED"

\* the FAILED tasks of job_id that were submitted again: a later task of the
\* same job with the same description exists and is COMPLETED
Resubmitted(job_id) ==
    {i \in Owned(job_id) :
        /\ remote[i].state = "FAILED"
        /\ \E k \in Owned(job_id) :
               /\ k > i
               /\ remote[k].description = remote[i].description
               /\ remote[k].state = "COMPLETED"}

\* a task of job_id failed, every failed task of the job was submitted again,
\* the new tasks and all other tasks of the job are COMPLETED, and no task of
\* another job matches the job id
Recovered(job_id) ==
    /\ Resubmitted(job_id) # {}
    /\ \A i \in Owned(job_id) \ Resubmitted(job_id) : remote[i].state = "COMPLETED"
    /\ Matched(job_id) = Owned(job_id)

\* C11: once a failed task of a job has been submitted again and the new task
\* and all other tasks of the job are COMPLETED, check_status answers
\* all_complete and download_results answers 'ready' for that job (no task
\* changes state any more, so "eventually" is every answer from then on)
C11_ResubmissionCompletesJob ==
    /\ (response.op = "check_status" /\ Recovered(response.job_id)) =>
           response.all_complete
    /\ (response.op = "download_results" /\ Recovered(response.job_id)) =>
           response.status = "ready"

\* the descriptions of the tasks the platform received during the last
\* execute call
SubmittedDescriptions(r) == {remote[i].description : i \in Submitted(r)}

\* the descriptions of the exports that do not come from the zonation
NonVraDescriptions(job_id, export_png, lst) ==
    {<<job_id, "_TIFF_", idx>> : idx \in {"NDVI", "NDWI", "EVI", "NDCI", "SAVI", "OSAVI"}}
    \cup {<<job_id, "_KPIs">>, <<job_id, "_TimeSeries">>}
    \cup (IF export_png
          THEN {<<job_id, "_PNG_", idx>> : idx \in {"NDVI", "NDWI", "EVI", "NDCI", "SAVI"}}
               \cup (IF lst THEN {<<job_id, "_PNG_LST">>} ELSE {})
          ELSE {})

\* C12: when zonation fails during an execute call that nothing else stops
\* (valid ROI, scenes found, no platform failure), the call still succeeds
\* with its KPI record, vra_stats is empty, no PNG_VRA, VRA_RASTER,
\* VRA_VECTOR or VRA_STATS task is submitted, and every other export task
\* (index PNGs when PNG export is on, GeoTIFFs, KPI and time-series tables)
\* is submitted and listed in the manifest
C12_ZonationFailureOnlyVra ==
    (/\ response.op = "execute"
     /\ response.args.roi = "polygon"
     /\ response.args.export_png # "absent"
     /\ response.scenes > 0
     /\ ~ response.cond.zonation
     /\ ~ response.cond.faulty) =>
        /\ response.exit = 0
        /\ "kpis" \in DOMAIN response.body
        /\ response.body.success
        /\ response.body.vra_stats = <<>>
        /\ \A d \in SubmittedDescriptions(response) :
               d[2] \notin {"_PNG_VRA", "_VRA_RASTER", "_VRA_VECTOR", "_VRA_STATS"}
        /\ SubmittedDescriptions(response) =
               NonVraDescriptions(response.args.job_id,
                                  response.args.export_png = "true",
                                  response.cond.lst)
        /\ Cardinality(Submitted(response)) = response.body.task_count
        /\ \A k \in 1..Len(response.body.tasks) :
               response.body.tasks[k].type \notin
                   {"png_vra", "vra_raster", "vra_vector", "vra_stats"}

\* an execute call with PNG export during which zonation failed has ended
\* with a result and submitted tasks
C12_Witness ==
    /\ response.op = "execute"
    /\ response.args.export_png = "true"
    /\ ~ response.cond.zonation
    /\ response.exit = 0
    /\ response.body.task_count = 14

\* C13: a successful zonation gives exactly three summaries, one per raw
\* cluster id and with that cluster's mean NDVI, in non-decreasing order of
\* ndvi_mean, labelled 'Bajo vigor', 'Vigor medio', 'Alto vigor' and
\* recommended 'Dosis alta', 'Dosis media', 'Dosis baja' by position,
\* whatever raw ids the clusterer gave
C13_ZonesOrderedAndLabelled ==
    (response.op = "calculate_vra_zones" /\ response.z.ok) =>
        LET st == response.vra_stats
        IN  /\ ~ response.none
            /\ Len(st) = 3
            /\ {st[i].zone : i \in 1..3} = 0..2
            /\ \A i \in 1..3 : \A c \in Clusters :
                   response.z.ids[c] = st[i].zone =>
                       st[i].ndvi_mean = NdviMean(response.z.means[c])
            /\ st[1].ndvi_mean <= st[2].ndvi_mean
            /\ st[2].ndvi_mean <= st[3].ndvi_mean
            /\ <<st[1].label, st[2].label, st[3].label>> =
                   <<"Bajo vigor", "Vigor medio", "Alto vigor">>
            /\ <<st[1].recommendation, st[2].recommendation, st[3].recommendation>> =
                   <<"Dosis alta", "Dosis media", "Dosis baja">>

\* a successful zonation in which raw id 0 is the cluster of highest NDVI
\* and raw id 2 the one of lowest
C13_Witness ==
    /\ response.op = "calculate_vra_zones"
    /\ ~ response.none
    /\ response.vra_stats[3].zone = 0
    /\ response.vra_stats[1].zone = 2
    /\ response.vra_stats[1].ndvi_mean < response.vra_stats[2].ndvi_mean
    /\ response.vra_stats[2].ndvi_mean < response.vra_stats[3].ndvi_mean

\* the three clusters have different mean NDVI after rounding
DistinctMeans(z) ==
    \A c, d \in Clusters : c # d => NdviMean(z.means[c]) # NdviMean(z.means[d])

\* C14: for three clusters of different mean NDVI, the label, the
\* recommendation and the PNG_VRA colour each cluster gets are the same under
\* every numbering of the clusters by the clusterer
C14_MeaningIndependentOfRawIds ==
    (response.op = "calculate_vra_zones" /\ response.z.ok /\ DistinctMeans(response.z)) =>
        \A ids \in ClusterIds :
            LET out == calculate_vra_zones(Zonation(TRUE, response.z.means, ids))
            IN  VigorMeaning(out.zone, out.vra_stats) = response.meaning

\* the status the bands of the specification give a quotient x
BandOf(x, high, mid, low) ==
    CASE x.num > high * x.den -> "adelantado"
      [] x.num <= high * x.den /\ x.num > mid * x.den -> "normal"
      [] x.num <= mid * x.den /\ x.num > low * x.den -> "retrasado"
      [] x.num <= low * x.den -> "critico"

\* C15: when the crop has an expected NDVI, pheno_status is 'adelantado'
\* for deviation_pct > 15, 'normal' for -10 < deviation_pct <= 15,
\* 'retrasado' for -25 < deviation_pct <= -10 and 'critico' for
\* deviation_pct <= -25
C15_StatusBands ==
    (response.op = "script" /\ ~ response.ndvi_expected.null) =>
        /\ ~ response.ndvi_deviation_pct.null
        /\ response.pheno_status = BandOf(response.ndvi_deviation_pct, 15, -10, -25)

\* a run whose deviation_pct is exactly 15, -10 or -25
C15_Witness ==
    /\ response.op = "script"
    /\ ~ response.ndvi_expected.null
    /\ \E k \in {15, -10, -25} :
           response.ndvi_deviation_pct.num = k * response.ndvi_deviation_pct.den

\* C16: the deviation decides the status whenever the crop has a curve;
\* otherwise the seasonal z-score decides it whenever it is not null, for
\* every value of it, 0 included; 'sin_datos' only when both are null
C16_StatusPriority ==
    response.op = "script" =>
        /\ response.in.crop # "otro" =>
               response.pheno_status = BandOf(response.ndvi_deviation_pct, 15, -10, -25)
        /\ (response.in.crop = "otro" /\ ~ response.ndvi_zscore_seasonal.null) =>
               response.pheno_status = BandOf(response.ndvi_zscore_seasonal, 1, -1, -2)
        /\ response.pheno_status = "sin_datos" <=>
               (response.ndvi_expected.null /\ response.ndvi_zscore_seasonal.null)

StageValue(crop, day) ==
    CASE crop = "olivo" -> CurveFrom(Olivo, 1, day)
      [] crop = "vina" -> CurveFrom(Vina, 1, day)
      [] crop = "almendro" -> CurveFrom(Almendro, 1, day)

\* C18: for every crop with a curve and every day of the year of the last
\* image, ndvi_expected is the value of the stage that contains that day,
\* deviation = observed - expected and deviation_pct = deviation / expected
\* x 100; olivo on day 170 has expected 0.62, and observed 0.30 then gives
\* deviation_pct about -51.6 and status 'critico'
C18_ExpectedFromStage ==
    (response.op = "script" /\ response.in.crop # "otro") =>
        /\ response.ndvi_expected = Number(StageValue(response.in.crop, response.in.day), 1)
        /\ response.ndvi_deviation.num = response.in.ndvi_now - response.ndvi_expected.num
        /\ response.ndvi_deviation_pct.num * response.ndvi_expected.num =
               response.ndvi_deviation.num * 100 * response.ndvi_deviation_pct.den
        /\ (response.in.crop = "olivo" /\ response.in.day = 170) =>
               response.ndvi_expected.num = 620
        /\ (response.in.crop = "olivo" /\ response.in.day = 170
                /\ response.in.ndvi_now = 300) =>
               /\ response.pheno_status = "critico"
               /\ response.ndvi_deviation_pct.num * 10 < -515 * response.ndvi_deviation_pct.den
               /\ response.ndvi_deviation_pct.num * 10 > -517 * response.ndvi_deviation_pct.den

\* a non-empty list of [lon, lat] pairs
IsRing(j) ==
    /\ IsList(j)
    /\ j.items # <<>>
    /\ \A k \in 1..Len(j.items) :
           /\ IsList(j.items[k])
           /\ Len(j.items[k].items) = 2
           /\ \A n \in 1..2 : j.items[k].items[n].t = "num"

\* a list that holds no position at any depth: [], [[]], [[[]]]
RECURSIVE HoldsNoPosition(_)
HoldsNoPosition(j) ==
    /\ IsList(j)
    /\ \A k \in 1..Len(j.items) : HoldsNoPosition(j.items[k])

IsValidPolygon(j) ==
    /\ j.t = "dict"
    /\ DOMAIN j.d = {"type", "coordinates"}
    /\ j.d.type = "Polygon"
    /\ j.d.coordinates \in PolygonCoords

IsValidMultiPolygon(j) ==
    /\ j.t = "dict"
    /\ DOMAIN j.d = {"type", "coordinates"}
    /\ j.d.type = "MultiPolygon"
    /\ j.d.coordinates \in MultiPolygonCoords

IsValidFeature(j) ==
    /\ j.t = "dict"
    /\ DOMAIN j.d = {"type", "geometry"}
    /\ j.d.type = "Feature"
    /\ IsValidPolygon(j.d.geometry) \/ IsValidMultiPolygon(j.d.geometry)

IsValidCollection(j) ==
    /\ j.t = "dict"
    /\ DOMAIN j.d = {"type", "features"}
    /\ j.d.type = "FeatureCollection"
    /\ j.d.features.items # <<>>
    /\ \A k \in 1..Len(j.d.features.items) : IsValidFeature(j.d.features.items[k])

\* a valid Polygon, MultiPolygon, Feature or FeatureCollection, given as an
\* object or as its JSON text
IsValidRoi(j) ==
    LET g == IF j.t = "str" /\ j.ok THEN j.json ELSE j
    IN  \/ IsValidPolygon(g) \/ IsValidMultiPolygon(g)
        \/ IsValidFeature(g) \/ IsValidCollection(g)

\* a geometry object that has no coordinates key or only empty coordinates
GeometryLacksCoordinates(g) ==
    /\ g.t = "dict"
    /\ Get(g, "type", "") \notin {"Feature", "FeatureCollection"}
    /\ "coordinates" \in DOMAIN g.d => HoldsNoPosition(g.d.coordinates)

\* an input from which no coordinates can be extracted: None, a value that
\* is not a dict, text that is not JSON, empty coordinates, an empty
\* FeatureCollection, a Feature without geometry, an unknown type without
\* coordinates
LacksCoordinates(j) ==
    LET g == IF j.t = "str" /\ j.ok THEN j.json ELSE j
    IN  \/ g.t # "dict"
        \/ GeometryLacksCoordinates(g)
        \/ /\ Get(g, "type", "") = "Feature"
           /\ \/ ~ PyTruth(Get(g, "geometry", JNull))
              \/ GeometryLacksCoordinates(Get(g, "geometry", JNull))
        \/ /\ Get(g, "type", "") = "FeatureCollection"
           /\ ~ PyTruth(Get(g, "features", JList(<<>>)))

\* the error generate_gee_script raises for an ROI it cannot resolve
\* (json.JSONDecodeError is a ValueError)
IsInvalidGeometry(out) == out.raised /\ out.exc \in {"ValueError", "JSONDecodeError"}

\* C19: for every valid Polygon, MultiPolygon, Feature or FeatureCollection
\* the ROI written into the script is a non-empty ring of [lon, lat] pairs;
\* for every input from which no coordinates can be extracted
\* generate_gee_script fails with the invalid-geometry error and produces no
\* script
C19_RingOrInvalidGeometry ==
    response.op = "generate_gee_script" =>
        /\ IsValidRoi(response.roi_geojson) =>
               (~ response.out.raised /\ IsRing(response.out.value.coords))
        /\ LacksCoordinates(response.roi_geojson) => IsInvalidGeometry(response.out)

\* C20: stress_pct is reported as null whenever the ROI area is 0, and as
\* stress_ha / area x 100 whenever the area is above 0, by the engine
\* (rounded to one decimal) and by the generated script
C20_StressPctNullOnZeroArea ==
    /\ response.op = "kpis" =>
           IF response.in.area_ha = 0
           THEN response.stress_area_pct.null
           ELSE /\ ~ response.stress_area_pct.null
                /\ response.stress_area_pct.den = 10
                /\ response.stress_area_pct.num =
                       RoundHalfEven(response.in.stress_ha * 1000, response.in.area_ha)
    /\ response.op = "script" =>
           IF response.in.area_ha = 0
           THEN response.area_estres_pct.null
           ELSE /\ ~ response.area_estres_pct.null
                /\ response.area_estres_pct.den > 0
                /\ response.area_estres_pct.num * response.in.area_ha =
                       response.in.stress_ha * 100 * response.area_estres_pct.den

\* C21: the z-score against the whole series is (current mean - series
\* mean) / series standard deviation when that deviation is positive and 0
\* when it is 0, in the generated script and in the engine (whose record
\* holds it rounded to two decimals)
C21_SeriesZscore ==
    /\ response.op = "script" =>
           IF response.in.series_std > 0
           THEN /\ response.ndvi_zscore.den > 0
                /\ response.ndvi_zscore.num * response.in.series_std =
                       (response.in.ndvi_now - response.in.series_mean)
                           * response.ndvi_zscore.den
           ELSE response.ndvi_zscore.num = 0
    /\ (/\ response.op = "kpis"
        /\ ~ response.in.ndvi_mean.null
        /\ ~ response.in.hist_mean.null
        /\ ~ response.in.hist_std.null) =>
           IF response.in.hist_std.num > 0
           THEN response.ndvi_zscore =
                    Round2(Number(response.in.ndvi_mean.num - response.in.hist_mean.num,
                                  response.in.hist_std.num))
           ELSE response.ndvi_zscore.num = 0

\* C22: the router answers mode execute, for a valid ROI with at least one
\* scene, with the result the command line gives for the same inputs on the
\* same platform state, and answers an unknown mode with the 400 error
\* "Unknown mode"
C22_RouterAsCommandLine ==
    /\ (/\ response.op = "execute"
        /\ response.args.entry = "http"
        /\ response.args.roi = "polygon"
        /\ response.scenes > 0) =>
           LET cli == main(execute_analysis(
                           Args("cli", response.args.job_id, response.args.roi, "true"),
                           response.cond, SubSeq(remote, 1, response.before)))
           IN  /\ response.exit = 200
               /\ cli.exit = 0
               /\ response.body.result = cli.body
    /\ (response.op = "unknown" /\ response.entry = "http") =>
           /\ response.exit = 400
           /\ response.body.detail = "Unknown mode"

\* the job had no task on the platform when the execute call began
NoEarlierTasks(r) ==
    \A i \in 1..r.before : remote[i].job # r.args.job_id

\* the manifest of a successful execute has one entry per task the call
\* started, in submission order, counted by task_count, each task carrying
\* the job id in its description and the folder of its entry as target
ManifestMatchesSubmitted(r) ==
    LET result == Payload(r)
    IN  /\ Len(result.tasks) = Cardinality(Submitted(r))
        /\ result.task_count = Len(result.tasks)
        /\ \A k \in 1..Len(result.tasks) :
              /\ result.tasks[k].id = r.before + k
              /\ result.tasks[k].folder \in {"WEB", "TIFF", "DATA", "VRA"}
              /\ Infix(remote[r.before + k].description, r.args.job_id)
              /\ remote[r.before + k].folder =
                     <<drive_folder, r.args.job_id, result.tasks[k].folder>>

\* C23: after a successful execute for a job that had no earlier task, the
\* manifest lists exactly the tasks started, in order, with their folders,
\* and a check_status issued right afterwards reports total = task_count
C23_ManifestIsWhatWasStarted ==
    (/\ response.op = "execute"
     /\ "tasks" \in DOMAIN Payload(response)
     /\ NoEarlierTasks(response)) =>
        /\ ManifestMatchesSubmitted(response)
        /\ check_status(response.args.job_id, TaskList(remote)).total =
               Payload(response).task_count

\* C24: create_roi and extract_coordinates resolve the same polygon for the
\* same valid input: the geometry of a Feature, the first feature of a
\* FeatureCollection, the first polygon of a MultiPolygon (compared on the
\* exterior ring)
C24_ResolversAgree ==
    (response.op = "create_roi" /\ IsValidRoi(response.geojson_str)) =>
        LET coords == extract_coordinates(response.geojson_str)
        IN  /\ ~ response.out.raised
            /\ ~ coords.raised
            /\ Len(response.out.value) = 1
            /\ response.out.value[1].items[1] = coords.value

\* C25: a scene is in the seasonal comparison set exactly when it is of a
\* previous year and its day of the year differs from the day of the year of
\* the current observation by at most 21, both counted in the same
\* numbering, for every day of the current observation
C25_SeasonalWindow ==
    response.op = "seasonal" =>
        (response.selected <=>
            /\ response.scene.year < response.LAST.year
            /\ response.scene.day - response.LAST.day \in (0 - 21)..21)

\* the curve of a crop and the number of its stages: the nested ifs and the
\* final value
CurveOf(crop) ==
    CASE crop = "olivo" -> Olivo [] crop = "vina" -> Vina [] crop = "almendro" -> Almendro

StageCount(crop) == Len(CurveOf(crop).stages) + 1

StageValues(crop) ==
    {CurveOf(crop).stages[k].value : k \in 1..Len(CurveOf(crop).stages)}
    \cup {CurveOf(crop).last}

\* the crop types that are no key of the map, whatever their case and the
\* blanks around them
OtherCropTypes == {"trigo", "vina", "otro"}

\* a script run gives a crop of the three an expected NDVI of its curve, of
\* stages stages, and any other crop type null
CurveOfStages(stages) ==
    response.op = "script" =>
        IF response.in.crop_type \in OtherCropTypes
        THEN response.ndvi_expected.null
        ELSE /\ response.in.crop \in {"olivo", "vina", "almendro"}
             /\ StageCount(response.in.crop) = stages[response.in.crop]
             /\ ~ response.ndvi_expected.null
             /\ response.ndvi_expected.den = 1
             /\ response.ndvi_expected.num \in StageValues(response.in.crop)

\* C26 as stated: each of the three curves has 12 stages and gives every day
\* of the year an expected NDVI; a crop type that is not mapped to one of
\* the three gets null
C26_TwelveStages ==
    CurveOfStages([crop \in {"olivo", "vina", "almendro"} |-> 12])

\* C26: the olive and almond curves have 12 stages and the vineyard curve
\* 11 (January and February are one stage); each gives every day of the
\* year an expected NDVI, and a crop type that is not mapped to one of the
\* three gets null
C26_StagesPerCrop ==
    CurveOfStages([crop \in {"olivo", "vina", "almendro"} |->
                      IF crop = "vina" THEN 11 ELSE 12])

\* the vineyard curve was read in February, in its first stage
C26_Witness ==
    /\ response.op = "script"
    /\ response.in.crop_type = "viñedo"
    /\ response.in.day = 45
    /\ response.ndvi_expected = Number(180, 1)

\* the place of a status in the chain pending, processing, completed or failed
StatusRank(status) ==
    CASE status = "pending" -> 0
      [] status = "processing" -> 1
      [] status \in {"completed", "failed"} -> 2

\* one step on a job that has a row: its status stays, or moves forward
\* along the chain, and stays for good once it is completed or failed
C27_StatusStep ==
    \A job_id \in WebhookJobIds :
        jobs[job_id] # NoJob =>
            /\ jobs'[job_id] # NoJob
            /\ \/ jobs'[job_id].status = jobs[job_id].status
               \/ StatusRank(jobs'[job_id].status) > StatusRank(jobs[job_id].status)

\* C27: under any sequence of job-started and job-completed calls the
\* status of a job only moves forward along pending, processing, completed
\* or failed, and a completed or failed job never changes status again
C27_StatusOnlyForward == [][C27_StatusStep]_vars

\* the file name execute gives to the export a task was started for
ExportName(task) ==
    LET plan == ExportPlan(task.job, TRUE, TRUE, TRUE)
    IN  plan[CHOOSE k \in 1..Len(plan) : plan[k].description = task.description].name

\* the file names download_results lists
ListedNames(files) ==
    UNION {{files[folder][k].name : k \in 1..Len(files[folder])} : folder \in DOMAIN files}

AnswersReady(job_id, tasks) ==
    /\ download_results(job_id, TaskList(tasks)).status = "ready"
    /\ check_status(job_id, TaskList(tasks)).all_complete

\* one step from a state in which download_results answers ready for a job
\* (whether it was just called or was called earlier): after the step it
\* still answers ready and check_status still reports all_complete
C29_ReadyStep ==
    \A job_id \in JobIds :
        AnswersReady(job_id, remote) => AnswersReady(job_id, remote')

\* C29: once download_results has answered ready for a job, every later
\* download_results for it answers ready and every later check_status
\* reports all_complete, whatever engine operations come in between, on
\* this job or on another
C29_ReadinessStable == [][C29_ReadyStep]_vars

====
